---- MODULE Spec2Model ----
(***************************************************************************)
(* Model of src/main.mjs (microsoft-loop-exporter), the version at lines   *)
(* 316-534: run, openWorkspace, expandTreeItems, getTreeItems,             *)
(* exportItemToPDF, findPDFOption and handlePopupPrint.                    *)
(*                                                                         *)
(* The navigation tree is a forest of nodes 1..n numbered in document      *)
(* order (preorder).  A node with children is a branch and carries an      *)
(* element of class fui-TreeItemLayout__expandIcon whether it is open or   *)
(* closed; a click on that element flips the node (open <-> closed).  The  *)
(* children of a closed node are not in the DOM.                           *)
(***************************************************************************)
EXTENDS Integers, Sequences, FiniteSets, TLC

MaxNodes == 3
MaxMenu == 2
MaxInvocations == 2

VARIABLES
    n, parent, label, open,
    expandedItemsKeys, expandIcons, k, expanded, epc,
    passes, clicks, clickThrew, clickLog, memo0, invocations, prev,
    pc, acquired, workspaceFound, closeCount, exitStatus, summaryReported, errorReported,
    items, i, started, returned, result, successCount, skippedCount,
    ipc, menu, exportButton, popups, printed, timedOut, closeAttempt,
    diag, menuFails, otherFailure, listening, popup, popupPrinted

treeVars == <<n, parent, label, open>>
expVars == <<expandedItemsKeys, expandIcons, k, expanded, epc,
             passes, clicks, clickThrew, clickLog, memo0, invocations, prev>>
runVars == <<pc, acquired, workspaceFound, closeCount, exitStatus, summaryReported,
             errorReported>>
loopVars == <<items, i, started, returned, result, successCount, skippedCount>>
pipeVars == <<ipc, menu, exportButton, popups, printed, timedOut, closeAttempt,
              diag, menuFails, otherFailure, listening, popup, popupPrinted>>
vars == <<treeVars, expVars, runVars, loopVars, pipeVars>>

----------------------------------------------------------------------------
(* The DOM tree *)

RECURSIVE AncSelf(_, _)
AncSelf(p, x) == IF x = 0 THEN {} ELSE {x} \cup AncSelf(p, p[x])

MaxOf(S) == IF S = {} THEN 0 ELSE CHOOSE m \in S : \A y \in S : y <= m

RECURSIVE SortedSeq(_)
SortedSeq(S) ==
    IF S = {} THEN <<>>
    ELSE LET m == CHOOSE x \in S : \A y \in S : x <= y
         IN <<m>> \o SortedSeq(S \ {m})

\* forests on 1..c whose numbering is the document order
TreeShapes(c) ==
    { p \in [1..c -> 0..c] :
        \A m \in 1..c :
            /\ p[m] < m
            /\ (m > 1 => (p[m] = 0 \/ p[m] \in AncSelf(p, m - 1))) }

\* label texts up to renaming: node m takes an earlier label or the next new one
Labellings(c) ==
    { l \in [1..c -> 1..c] :
        \A m \in 1..c : l[m] <= 1 + MaxOf({ l[j] : j \in 1..(m - 1) }) }

Nodes == 1..n
IsBranch(x) == \E y \in Nodes : parent[y] = x
Branches == { x \in Nodes : IsBranch(x) }
Visible(o, x) == AncSelf(parent, parent[x]) \subseteq o
VisibleNodes(o) == { x \in Nodes : Visible(o, x) }

\* page.$$(".fui-TreeItemLayout__expandIcon")
QueryExpandIcons == SortedSeq({ x \in VisibleNodes(open) : IsBranch(x) })

\* page.$$("*[role='treeitem']")
QueryTreeItems == SortedSeq(VisibleNodes(open))

\* icon.click(): throws on an element that left the DOM, else flips the node
ClickIcon(o, x) == IF x \in o THEN o \ {x} ELSE o \cup {x}

----------------------------------------------------------------------------
(* expandTreeItems *)

\* variant: the set is created afresh by every top-level call
MemoPerCall == {}

\* const expandedItemsKeys = new Set() at module level: one set per process,
\* shared by every invocation
MemoOnCall == expandedItemsKeys

\* variant: the click is issued without consulting the memo
NeverExpanded(lbl) == FALSE

\* expandedItemsKeys.has(label)
AlreadyExpanded(lbl) == lbl \in expandedItemsKeys

\* variant: recurse whenever the pass saw an affordance
RecurseWhileIcons == Len(expandIcons) > 0

\* if (expanded) recurse else return
ShouldRecurse == expanded

\* variant: the label is recorded inside the try, after the click succeeded
MemoOnSuccess(m, lbl, ok) == IF ok THEN m \cup {lbl} ELSE m

\* expandedItemsKeys.add(label), after the try/catch around the click
MemoAfterClick(m, lbl, ok) == m \cup {lbl}

\* waitForSelector + page.$$ + let expanded = false
ExpandPass ==
    /\ epc = "wait"
    /\ passes' = passes + 1
    /\ memo0' = expandedItemsKeys
    /\ IF Len(QueryExpandIcons) = 0
       THEN /\ epc' = "thrown"
            /\ pc' = IF pc = "harness" THEN pc ELSE "catch"
            /\ UNCHANGED <<expandIcons, k, expanded>>
       ELSE /\ epc' = "loop"
            /\ expandIcons' = QueryExpandIcons
            /\ k' = 1
            /\ expanded' = FALSE
            /\ pc' = pc
    /\ UNCHANGED <<treeVars, expandedItemsKeys, clicks, clickThrew, clickLog, invocations,
                   prev,
                   acquired, workspaceFound, closeCount, exitStatus, summaryReported,
                   errorReported, loopVars, pipeVars>>

\* one iteration of for (const icon of expandIcons)
ExpandIcon ==
    /\ epc = "loop"
    /\ k <= Len(expandIcons)
    /\ LET icon == expandIcons[k]
           lbl == label[icon]
       IN IF AlreadyExpanded(lbl)
          THEN UNCHANGED <<open, expandedItemsKeys, expanded, clicks, clickThrew, clickLog>>
          ELSE /\ clicks' = clicks + 1
               /\ clickLog' = Append(clickLog, icon)
               /\ \E ok \in BOOLEAN :
                    LET done == ok /\ Visible(open, icon)
                    IN /\ open' = IF done THEN ClickIcon(open, icon) ELSE open
                       /\ clickThrew' = IF done THEN clickThrew ELSE TRUE
                       /\ expandedItemsKeys' = MemoAfterClick(expandedItemsKeys, lbl, done)
               /\ expanded' = TRUE
    /\ k' = k + 1
    /\ UNCHANGED <<n, parent, label, expandIcons, epc, passes, memo0, invocations, prev,
                   runVars, loopVars, pipeVars>>

\* if (expanded) await expandTreeItems(page) else return
ExpandPassEnd ==
    /\ epc = "loop"
    /\ k > Len(expandIcons)
    /\ epc' = IF ShouldRecurse THEN "wait" ELSE "returned"
    /\ UNCHANGED <<treeVars, expandedItemsKeys, expandIcons, k, expanded,
                   passes, clicks, clickThrew, clickLog, memo0, invocations, prev,
                   runVars, loopVars, pipeVars>>

\* a further top-level call of expandTreeItems in the same process
ExpandAgain ==
    /\ pc = "harness"
    /\ epc = "returned"
    /\ invocations < MaxInvocations
    /\ invocations' = invocations + 1
    /\ expandedItemsKeys' = MemoOnCall
    /\ passes' = 0
    /\ prev' = [clicks |-> clicks, memo |-> expandedItemsKeys, open |-> open,
                full |-> (VisibleNodes(open) = Nodes)]
    /\ epc' = "wait"
    /\ UNCHANGED <<treeVars, expandIcons, k, expanded, clicks, clickThrew, clickLog, memo0,
                   runVars, loopVars, pipeVars>>

----------------------------------------------------------------------------
(* findPDFOption *)

\* textContent of the menu entries the host UI may render
MenuTexts ==
    { <<"P", "D", "F">>,
      <<" ", "a", " ", "P", "D", "F", " ">>,
      <<"p", "d", "f">> }

Menus == UNION { [1..m -> MenuTexts] : m \in 1..MaxMenu }

\* String.prototype.trim
RECURSIVE TrimLeft(_)
TrimLeft(t) == IF Len(t) > 0 /\ Head(t) = " " THEN TrimLeft(Tail(t)) ELSE t

RECURSIVE TrimRight(_)
TrimRight(t) ==
    IF Len(t) > 0 /\ t[Len(t)] = " " THEN TrimRight(SubSeq(t, 1, Len(t) - 1)) ELSE t

Trim(t) == TrimRight(TrimLeft(t))

\* String.prototype.includes
Includes(t, pat) ==
    \E s \in 0..(Len(t) - Len(pat)) : SubSeq(t, s + 1, s + Len(pat)) = pat

PDFToken == <<"P", "D", "F">>

\* for (const item of menuItems) if (text.includes("PDF")) return item; return null
\* the result is the position of the entry in the menu, 0 for null
RECURSIVE findPDFOptionFrom(_, _)
findPDFOptionFrom(m, j) ==
    IF j > Len(m) THEN 0
    ELSE IF Includes(Trim(m[j]), PDFToken) THEN j
    ELSE findPDFOptionFrom(m, j + 1)

\* variant: the loop does not return at the first match and keeps the last one
findLastPDFOption(m) ==
    LET hits == { j \in 1..Len(m) : Includes(Trim(m[j]), PDFToken) }
    IN IF hits = {} THEN 0 ELSE CHOOSE j \in hits : \A h \in hits : h <= j

findPDFOption(m) == findPDFOptionFrom(m, 1)

----------------------------------------------------------------------------
(* run *)

\* const context = await launchChrome(): a rejection here leaves run before its try
Launch ==
    /\ pc = "start"
    /\ \E ok \in BOOLEAN :
         IF ok
         THEN /\ acquired' = TRUE
              /\ pc' = "open"
              /\ exitStatus' = exitStatus
         ELSE /\ acquired' = FALSE
              /\ pc' = "exited"
              /\ exitStatus' = 1
    /\ UNCHANGED <<treeVars, expVars, workspaceFound, closeCount, summaryReported,
                   errorReported, loopVars, pipeVars>>

\* variant: the lookup result is not checked
LookupUnchecked(found) == "expand"

\* openWorkspace: waitForSelector rejects when no entry matches workspaceName
AfterWorkspaceLookup(found) == IF found THEN "expand" ELSE "catch"

OpenWorkspace ==
    /\ pc = "open"
    /\ \E found \in BOOLEAN :
         /\ workspaceFound' = IF found THEN "found" ELSE "missing"
         /\ pc' = AfterWorkspaceLookup(found)
    /\ UNCHANGED <<treeVars, expVars, acquired, closeCount, exitStatus, summaryReported,
                   errorReported, loopVars, pipeVars>>

\* await expandTreeItems(page)
CallExpand ==
    /\ pc = "expand"
    /\ epc = "idle"
    /\ epc' = "wait"
    /\ invocations' = 1
    /\ pc' = "expanding"
    /\ UNCHANGED <<treeVars, expandedItemsKeys, expandIcons, k, expanded, passes, clicks,
                   clickThrew, clickLog, memo0, prev, acquired, workspaceFound, closeCount, exitStatus,
                   summaryReported, errorReported, loopVars, pipeVars>>

\* const items = await getTreeItems(page)
GetTreeItems ==
    /\ pc = "expanding"
    /\ epc = "returned"
    /\ \E loaded \in BOOLEAN :
         IF loaded /\ Len(QueryTreeItems) > 0
         THEN /\ items' = QueryTreeItems
              /\ i' = 0
              /\ pc' = "loop"
         ELSE /\ pc' = "catch"
              /\ UNCHANGED <<items, i>>
    /\ UNCHANGED <<treeVars, expVars, acquired, workspaceFound, closeCount, exitStatus,
                   summaryReported,
                   errorReported, started, returned, result, successCount, skippedCount,
                   pipeVars>>

\* for (let i = 0; i < items.length; i++) ... exportItemToPDF(context, page, items[i], i)
StartItem ==
    /\ pc = "loop"
    /\ i < Len(items)
    /\ started' = Append(started, items[i + 1])
    /\ pc' = "pipeline"
    /\ ipc' = "itemClick"
    /\ timedOut' = FALSE
    /\ closeAttempt' = "none"
    /\ diag' = "none"
    /\ listening' = FALSE
    /\ popup' = 0
    /\ popupPrinted' = "no"
    /\ UNCHANGED <<treeVars, expVars, acquired, workspaceFound, closeCount, exitStatus,
                   summaryReported,
                   errorReported, items, i, returned, result, successCount, skippedCount,
                   menu, exportButton, popups, printed, menuFails, otherFailure>>

\* the loop is over: the three summary lines
Summary ==
    /\ pc = "loop"
    /\ i >= Len(items)
    /\ summaryReported' = TRUE
    /\ pc' = "finally"
    /\ UNCHANGED <<treeVars, expVars, acquired, workspaceFound, closeCount, exitStatus,
                   errorReported, loopVars, pipeVars>>

\* catch (err) { console.error(...); process.exit(1); }: the process ends inside
\* the catch block, so the finally block is not run
RunCatch ==
    /\ pc = "catch"
    /\ errorReported' = TRUE
    /\ exitStatus' = 1
    /\ pc' = "exited"
    /\ UNCHANGED <<treeVars, expVars, acquired, workspaceFound, closeCount, summaryReported,
                   loopVars, pipeVars>>

\* finally { await context.close(); } and the end of the script
RunFinally ==
    /\ pc = "finally"
    /\ closeCount' = closeCount + 1
    /\ exitStatus' = 0
    /\ pc' = "exited"
    /\ UNCHANGED <<treeVars, expVars, acquired, workspaceFound, summaryReported,
                   errorReported, loopVars, pipeVars>>

----------------------------------------------------------------------------
(* exportItemToPDF and handlePopupPrint *)

\* if (result === "exported") successCount++; else skippedCount++;
CountSuccess(r, c) == IF r = "exported" THEN c + 1 ELSE c

\* variant: a skipped item is not counted
SkippedNotCounted(r, c) == c

CountSkipped(r, c) == IF r = "exported" THEN c ELSE c + 1

\* variant: the loop steps over every other item
SkipOneIndex(j) == j + 2

\* i++
NextIndex(j) == j + 1

\* exportItemToPDF returns r; the loop body counts it and moves to the next item
Return(r) ==
    /\ result' = r
    /\ returned' = returned + 1
    /\ ipc' = "idle"
    /\ successCount' = CountSuccess(r, successCount)
    /\ skippedCount' = CountSkipped(r, skippedCount)
    /\ i' = NextIndex(i)
    /\ pc' = "loop"

\* an exception leaves exportItemToPDF and reaches the try of run
Throw ==
    /\ ipc' = "threw"
    /\ pc' = "catch"
    /\ UNCHANGED <<i, returned, result, successCount, skippedCount>>

Continue(next) ==
    /\ ipc' = next
    /\ UNCHANGED <<pc, i, returned, result, successCount, skippedCount>>

\* what no step of the pipeline changes
restVars == <<treeVars, expVars, acquired, workspaceFound, closeCount, exitStatus,
              summaryReported, errorReported, items, started>>

\* await item.click(), before the first try
ItemClick ==
    /\ ipc = "itemClick"
    /\ \E ok \in BOOLEAN :
         IF ok
         THEN Continue("menu") /\ otherFailure' = otherFailure
         ELSE Throw /\ otherFailure' = TRUE
    /\ UNCHANGED <<restVars, menu, exportButton, popups, printed, timedOut, closeAttempt,
                   diag, menuFails, listening, popup, popupPrinted>>

\* variant: the catch only warns and the pipeline goes on to findPDFOption
MenuCatchFallsThrough == "find"

\* catch { console.warn(... "Options menu not available."); return "skipped"; }
MenuCatch == "skipped"

\* try { waitForSelector; click; waitForSelector } catch { return "skipped" }
OpenMenu ==
    /\ ipc = "menu"
    /\ \/ \E m \in Menus :
            /\ menu' = m
            /\ Continue("find")
            /\ UNCHANGED <<diag, menuFails>>
       \/ /\ menu' = <<>>
          /\ diag' = "menu"
          /\ menuFails' = menuFails + 1
          /\ IF MenuCatch = "skipped" THEN Return("skipped") ELSE Continue("find")
    /\ UNCHANGED <<restVars, exportButton, popups, printed, timedOut, closeAttempt,
                   otherFailure, listening, popup, popupPrinted>>

\* const exportButton = await findPDFOption(page); if (!exportButton) return "skipped"
FindPDF ==
    /\ ipc = "find"
    /\ exportButton' = findPDFOption(menu)
    /\ menu' = <<>>
    /\ IF exportButton' = 0
       THEN /\ Return("skipped")
            /\ diag' = "nopdf"
            /\ otherFailure' = TRUE
       ELSE /\ Continue("pdfClick")
            /\ UNCHANGED <<diag, otherFailure>>
    /\ UNCHANGED <<restVars, popups, printed, timedOut, closeAttempt,
                   menuFails, listening, popup, popupPrinted>>

\* variant: await exportButton.click() first, context.waitForEvent("page") after
ListenerAfterClick == FALSE

\* Promise.all([context.waitForEvent("page"), exportButton.click()]): the array
\* elements are evaluated in order, so the listener for the page event is
\* registered when the click is dispatched
ListenerBeforeClick == TRUE

\* the two calls of the Promise.all, outside any try; a rejected click rejects it
ClickPDF ==
    /\ ipc = "pdfClick"
    /\ exportButton' = 0
    /\ listening' = ListenerBeforeClick
    /\ \E ok \in BOOLEAN :
         IF ok
         THEN Continue("awaitPopup") /\ otherFailure' = otherFailure
         ELSE Throw /\ otherFailure' = TRUE
    /\ UNCHANGED <<restVars, menu, popups, printed, timedOut, closeAttempt,
                   diag, menuFails, popup, popupPrinted>>

\* the browser creates the page the click asked for and the context emits "page":
\* a registered waitForEvent resolves with that page, otherwise the event is lost
PageCreated ==
    /\ ipc = "awaitPopup"
    /\ (i + 1) \notin popups
    /\ popups' = popups \cup {i + 1}
    /\ IF listening
       THEN /\ popup' = i + 1
            /\ listening' = FALSE
            /\ Continue("load")
       ELSE /\ UNCHANGED <<popup, listening>>
            /\ Continue("awaitPopup")
    /\ UNCHANGED <<restVars, menu, exportButton, printed, timedOut, closeAttempt,
                   diag, menuFails, otherFailure, popupPrinted>>

\* context.waitForEvent("page") rejects on its timeout: no page event reached it
PopupTimeout ==
    /\ ipc = "awaitPopup"
    /\ listening' = FALSE
    /\ otherFailure' = TRUE
    /\ Throw
    /\ UNCHANGED <<restVars, menu, exportButton, popups, printed, timedOut, closeAttempt,
                   diag, menuFails, popup, popupPrinted>>

\* the popup's own script calls window.print(), once, at any moment between the
\* creation of the popup and the end of the controller's wait; the call sets
\* window.__printed only when the wrapper is installed
PopupPrints ==
    /\ ipc \in {"load", "inject", "waitPrint"}
    /\ popup \in popups
    /\ popupPrinted = "no"
    /\ IF ipc = "waitPrint"
       THEN /\ popupPrinted' = "wrapped"
            /\ printed' = TRUE
       ELSE /\ popupPrinted' = "unwrapped"
            /\ printed' = printed
    /\ UNCHANGED <<restVars, loopVars, pc, ipc, menu, exportButton, popups, timedOut,
                   closeAttempt, diag, menuFails, otherFailure, listening, popup>>

\* handlePopupPrint: await popup.waitForLoadState(); a rejection is caught by the
\* try of exportItemToPDF
PopupLoad ==
    /\ ipc = "load"
    /\ \E ok \in BOOLEAN :
         IF ok
         THEN Continue("inject") /\ UNCHANGED <<diag, otherFailure>>
         ELSE Return("skipped") /\ diag' = "error" /\ otherFailure' = TRUE
    /\ UNCHANGED <<restVars, menu, exportButton, popups, printed, timedOut, closeAttempt,
                   menuFails, listening, popup, popupPrinted>>

\* handlePopupPrint: await popup.evaluate(...) sets window.__printed = false and
\* wraps window.print
Inject ==
    /\ ipc = "inject"
    /\ \E ok \in BOOLEAN :
         IF ok
         THEN /\ printed' = FALSE
              /\ Continue("waitPrint")
              /\ UNCHANGED <<diag, otherFailure>>
         ELSE /\ printed' = printed
              /\ Return("skipped")
              /\ diag' = "error"
              /\ otherFailure' = TRUE
    /\ UNCHANGED <<restVars, menu, exportButton, popups, timedOut, closeAttempt,
                   menuFails, listening, popup, popupPrinted>>

\* variant: the wait is not wrapped in its own try, its rejection reaches the
\* try of exportItemToPDF
PrintWaitUncaught(fired) == IF fired THEN "resolved" ELSE "rethrown"

\* try { await popup.waitForFunction(() => window.__printed, ...) } catch { warn }:
\* the rejection of the wait is caught inside handlePopupPrint
PrintWaitOutcome(fired) == IF fired THEN "resolved" ELSE "caught"

\* the wait resolves when window.__printed is true and times out while it is not
WaitPrint ==
    /\ ipc = "waitPrint"
    /\ LET fired == printed
       IN /\ timedOut' = ~fired
          /\ IF PrintWaitOutcome(fired) \in {"resolved", "caught"}
             THEN Continue("close") /\ UNCHANGED <<diag, otherFailure>>
             ELSE Return("skipped") /\ diag' = "error" /\ otherFailure' = TRUE
    /\ UNCHANGED <<restVars, menu, exportButton, popups, printed, closeAttempt,
                   menuFails, listening, popup, popupPrinted>>

\* await popup.close(); return "exported"; a rejection is caught: return "skipped"
ClosePopup ==
    /\ ipc = "close"
    /\ \E ok \in BOOLEAN :
         IF ok
         THEN /\ popups' = popups \ {popup}
              /\ closeAttempt' = "closed"
              /\ Return("exported")
              /\ UNCHANGED <<diag, otherFailure>>
         ELSE /\ popups' = popups
              /\ closeAttempt' = "failed"
              /\ Return("skipped")
              /\ diag' = "error"
              /\ otherFailure' = TRUE
    /\ UNCHANGED <<restVars, menu, exportButton, printed, timedOut,
                   menuFails, listening, popup, popupPrinted>>

----------------------------------------------------------------------------
(* Specifications *)

InitTree ==
    /\ n \in 0..MaxNodes
    /\ parent \in TreeShapes(n)
    /\ label \in Labellings(n)
    /\ open \in SUBSET Branches

InitRest ==
    /\ expandedItemsKeys = {}
    /\ expandIcons = <<>>
    /\ k = 0
    /\ expanded = FALSE
    /\ passes = 0
    /\ clicks = 0
    /\ clickThrew = FALSE
    /\ clickLog = <<>>
    /\ memo0 = {}
    /\ prev = [clicks |-> 0, memo |-> {}, open |-> {}, full |-> FALSE]
    /\ acquired = FALSE
    /\ workspaceFound = "unknown"
    /\ closeCount = 0
    /\ exitStatus = -1
    /\ summaryReported = FALSE
    /\ errorReported = FALSE
    /\ items = <<>>
    /\ i = 0
    /\ started = <<>>
    /\ returned = 0
    /\ result = "none"
    /\ successCount = 0
    /\ skippedCount = 0
    /\ ipc = "idle"
    /\ menu = <<>>
    /\ exportButton = 0
    /\ popups = {}
    /\ printed = FALSE
    /\ timedOut = FALSE
    /\ closeAttempt = "none"
    /\ diag = "none"
    /\ menuFails = 0
    /\ otherFailure = FALSE
    /\ listening = FALSE
    /\ popup = 0
    /\ popupPrinted = "no"

\* the script: await run()
Init ==
    /\ InitTree
    /\ InitRest
    /\ pc = "start"
    /\ epc = "idle"
    /\ invocations = 0

Next ==
    \/ Launch
    \/ OpenWorkspace
    \/ CallExpand
    \/ ExpandPass
    \/ ExpandIcon
    \/ ExpandPassEnd
    \/ GetTreeItems
    \/ StartItem
    \/ ItemClick
    \/ OpenMenu
    \/ FindPDF
    \/ ClickPDF
    \/ PageCreated
    \/ PopupTimeout
    \/ PopupPrints
    \/ PopupLoad
    \/ Inject
    \/ WaitPrint
    \/ ClosePopup
    \/ Summary
    \/ RunCatch
    \/ RunFinally

Spec == Init /\ [][Next]_vars

\* expandTreeItems on its own, called MaxInvocations times in one process
ExpandInit ==
    /\ InitTree
    /\ InitRest
    /\ pc = "harness"
    /\ epc = "wait"
    /\ invocations = 1

ExpandNext ==
    \/ ExpandPass
    \/ ExpandIcon
    \/ ExpandPassEnd
    \/ ExpandAgain

ExpandSpec == ExpandInit /\ [][ExpandNext]_vars

\* every await of a pass settles: the driver resolves or rejects each call
FairExpandSpec == ExpandSpec /\ WF_vars(ExpandNext)

----------------------------------------------------------------------------
(* Claims *)

\* C1 (pipeline totality): exportItemToPDF never lets an exception reach its
\* caller, and every pipeline that has ended returned "exported" or "skipped".
C1_PipelineNeverRaises ==
    /\ ipc # "threw"
    /\ (returned > 0 => result \in {"exported", "skipped"})

\* C2 (teardown guarantee): when the process has ended after the browser session
\* was acquired, context.close() has been executed exactly once.
C2_TeardownOnce ==
    (pc = "exited" /\ acquired) => closeCount = 1

\* C3 (failure isolation): once the items are enumerated and the first pipeline
\* has started, no failure inside a pipeline aborts the batch: when the process has
\* ended every item was started, every item was counted, the summary was
\* reported and the exit status is 0.
C3_FailureIsolation ==
    (pc = "exited" /\ Len(started) > 0) =>
        /\ started = items
        /\ successCount + skippedCount = Len(items)
        /\ summaryReported
        /\ exitStatus = 0

\* labels of the expandable nodes
BranchLabels == { label[x] : x \in Branches }

DistinctBranchLabels ==
    \A x, y \in Branches : label[x] = label[y] => x = y

\* C4 (expansion termination): an invocation makes at most one pass per distinct
\* label plus one; a pass that recurses has added a label to the memo; a pass
\* whose affordances were all memoised when it began returns; and every
\* invocation that is waiting for its pass ends, by returning or by throwing.
C4_ExpansionTerminates ==
    /\ [](passes <= Cardinality(BranchLabels) + 1)
    /\ [][(epc = "loop" /\ epc' = "wait") =>
            (memo0 \subseteq expandedItemsKeys /\ memo0 # expandedItemsKeys)]_vars
    /\ [][(/\ epc = "loop"
           /\ k > Len(expandIcons)
           /\ \A j \in 1..Len(expandIcons) : label[expandIcons[j]] \in memo0)
          => epc' = "returned"]_vars
    /\ ((epc = "wait") ~> (epc \in {"returned", "thrown"}))

\* a chain of depth two was expanded in three passes
C4_Witness ==
    /\ epc = "returned"
    /\ invocations = 1
    /\ n = 3
    /\ parent = <<0, 1, 2>>
    /\ passes = 3
    /\ open = {1, 2}

\* C5 (discovery completeness): when expandTreeItems has returned on a tree whose
\* expandable nodes have distinct labels and no click threw, every node is
\* revealed, the memo holds the label of every expandable node, and the list
\* getTreeItems enumerates holds every node.
C5_DiscoveryComplete ==
    (epc = "returned" /\ DistinctBranchLabels /\ ~clickThrew) =>
        /\ VisibleNodes(open) = Nodes
        /\ BranchLabels \subseteq expandedItemsKeys
        /\ (pc = "loop" => Len(items) = n)

\* C6 (expansion idempotence): during and after an invocation that began on a
\* fully expanded tree left by a previous invocation, the number of clicks, the
\* memo and the open/closed state of the tree are what they were when it began.
C6_SecondCallIdle ==
    (invocations >= 2 /\ prev.full) =>
        /\ clicks = prev.clicks
        /\ expandedItemsKeys = prev.memo
        /\ open = prev.open

\* a second invocation returned on a tree the first one had to expand
C6_Witness ==
    /\ invocations = 2
    /\ epc = "returned"
    /\ prev.full
    /\ prev.clicks >= 2

\* C7 (ordering preservation): the items whose pipeline was started are a prefix
\* of the enumerated list, in its order and each once; an item is started only
\* when every earlier one has returned; and none is started before
\* expandTreeItems returned and the list was enumerated.
C7_OrderPreserved ==
    /\ Len(started) <= Len(items)
    /\ \A j \in 1..Len(started) : j <= Len(items) /\ started[j] = items[j]
    /\ \A a, b \in 1..Len(started) : started[a] = started[b] => a = b
    /\ returned <= Len(started)
    /\ Len(started) <= returned + 1
    /\ (Len(started) = returned + 1 => pc \in {"pipeline", "catch", "exited"})
    /\ (Len(started) > 0 => (epc = "returned" /\ items = QueryTreeItems))

\* the third item is running after the first two returned
C7_Witness ==
    /\ Len(started) = 3
    /\ returned = 2
    /\ pc = "pipeline"

\* C8 (counter accounting): successCount + skippedCount is the number of
\* pipelines that returned, it is the number of items when the summary is
\* reported, and neither counter ever decreases.
C8_CounterAccounting ==
    /\ [](successCount + skippedCount = returned)
    /\ [](summaryReported => successCount + skippedCount = Len(items))
    /\ [][successCount' >= successCount /\ skippedCount' >= skippedCount]_vars

\* a summary over exported and skipped items
C8_Witness ==
    /\ summaryReported
    /\ successCount >= 1
    /\ skippedCount >= 1

\* C9 (workspace not found): when no workspace entry matched, no expansion pass,
\* click, enumeration or pipeline ever happens, and the process ends with the
\* error reported and exit status 1.
C9_WorkspaceNotFoundFatal ==
    workspaceFound = "missing" =>
        /\ pc \in {"catch", "exited"}
        /\ epc = "idle" /\ invocations = 0 /\ passes = 0 /\ clicks = 0
        /\ expandedItemsKeys = {}
        /\ items = <<>> /\ started = <<>> /\ returned = 0
        /\ ~summaryReported
        /\ (pc = "exited" => (errorReported /\ exitStatus = 1))

\* the run ended on a missing workspace
C9_Witness ==
    /\ workspaceFound = "missing"
    /\ pc = "exited"
    /\ n > 0

\* C10 as stated: after a print-signal timeout the popup is closed and the
\* outcome is "exported".
C10_TimeoutStillExported ==
    (timedOut /\ ipc = "idle") =>
        /\ closeAttempt = "closed"
        /\ result = "exported"

\* C10 (amended): after a print-signal timeout the close of the popup is still
\* attempted; the outcome is "exported" when that close succeeds and "skipped"
\* when the close itself throws; either way the run goes on with the loop.
C10_TimeoutNonFatal ==
    (timedOut /\ ipc = "idle") =>
        /\ closeAttempt \in {"closed", "failed"}
        /\ (closeAttempt = "closed" => (result = "exported" /\ i \notin popups))
        /\ (closeAttempt = "failed" => result = "skipped")
        /\ pc \in {"loop", "finally", "exited"}
        /\ (pc = "exited" => exitStatus = 0)

\* an item exported after a print-signal timeout, with a next item to go
C10_Witness ==
    /\ timedOut
    /\ ipc = "idle"
    /\ result = "exported"
    /\ pc = "loop"
    /\ i < Len(items)

\* C11 (no affordance is a terminal case): on a tree without any expandable
\* node the pass of expandTreeItems ends by returning normally, so that the run
\* goes on to getTreeItems.
C11_NoAffordanceReturns ==
    (Branches = {} /\ passes > 0) => epc = "returned"

\* C12 (memo invariant): the memo starts empty and never loses a label; a click
\* is only issued on an affordance whose label is not in the memo; no two
\* clicks of a process are on the same label, so of the nodes sharing a label
\* only one, the first met, is ever clicked; and every clicked label is memoised.
C12_MemoInvariant ==
    /\ expandedItemsKeys = {}
    /\ [][expandedItemsKeys \subseteq expandedItemsKeys']_vars
    /\ [][clicks' > clicks =>
            /\ label[expandIcons[k]] \notin expandedItemsKeys
            /\ clickLog' = Append(clickLog, expandIcons[k])
            /\ \A j \in 1..(k - 1) :
                 label[expandIcons[j]] = label[expandIcons[k]] =>
                     expandIcons[j] \in { clickLog[c] : c \in 1..Len(clickLog) }]_vars
    /\ [](\A a, b \in 1..Len(clickLog) :
            label[clickLog[a]] = label[clickLog[b]] => a = b)
    /\ []({ label[clickLog[c]] : c \in 1..Len(clickLog) } = expandedItemsKeys)
    /\ [](Len(clickLog) = clicks)

\* two visible expandable nodes share a label and one click was made over all
\* invocations
C12_Witness ==
    /\ epc = "returned"
    /\ invocations = 2
    /\ Len(clickLog) = 1
    /\ \E x, y \in Branches :
         /\ x # y
         /\ label[x] = label[y]
         /\ {x, y} \subseteq VisibleNodes(open)

\* C13 (a failed expand click is isolated): a click that throws leaves
\* expandTreeItems in its loop, on the next affordance, with the label in the
\* memo and the pass marked as having expanded; such a pass ends by recursing;
\* and expandTreeItems never throws once a click was issued.
C13_ClickFailureIsolated ==
    /\ [][(clicks' > clicks /\ open' = open) =>
            /\ epc' = "loop"
            /\ k' = k + 1
            /\ expandIcons' = expandIcons
            /\ label[expandIcons[k]] \in expandedItemsKeys'
            /\ expanded'
            /\ pc' = pc]_vars
    /\ [][(epc = "loop" /\ epc' # "loop" /\ expanded) => epc' = "wait"]_vars
    /\ [](clicks > 0 => epc # "thrown")

\* a click threw on the first of two affordances and the second was clicked
\* in the same pass
C13_Witness ==
    /\ clickThrew
    /\ passes = 1
    /\ Len(clickLog) = 2
    /\ open = {clickLog[2]}
    /\ epc = "loop"

\* C14 (menu-unavailable skip): when the options control of an item does not
\* appear or cannot be opened, the pipeline of that item returns "skipped" with
\* the diagnostic of the menu, without looking for the PDF entry, clicking it,
\* waiting for a popup or closing one, and the loop goes on; in a batch of n
\* items where this happens to exactly one item and every other item exports,
\* the summary counts n - 1 exported and 1 skipped.
C14_MenuUnavailableSkips ==
    /\ [][menuFails' > menuFails =>
            /\ ipc = "menu" /\ ipc' = "idle"
            /\ result' = "skipped"
            /\ diag' = "menu"
            /\ returned' = returned + 1
            /\ pc' = "loop"
            /\ skippedCount' = skippedCount + 1
            /\ successCount' = successCount
            /\ UNCHANGED <<exportButton, popups, popup, listening, printed,
                           popupPrinted, closeAttempt>>]_vars
    /\ [](diag = "menu" =>
            /\ ipc = "idle"
            /\ result = "skipped"
            /\ exportButton = 0 /\ popup = 0 /\ ~listening
            /\ closeAttempt = "none")
    /\ []((summaryReported /\ menuFails = 1 /\ ~otherFailure) =>
            /\ skippedCount = 1
            /\ successCount = Len(items) - 1)

\* a run of three items reaches the summary with one menu failure and two exports
C14_Witness ==
    /\ summaryReported
    /\ menuFails = 1
    /\ ~otherFailure
    /\ Len(items) = 3
    /\ successCount = 2

\* the text contains the letters P, D, F in a row, in upper case
ContainsPDF(t) ==
    \E a \in 1..(Len(t) - 2) : t[a] = "P" /\ t[a + 1] = "D" /\ t[a + 2] = "F"

\* position of the first menu entry, in document order, whose text contains PDF
FirstPDFEntry(m) ==
    LET hits == { j \in 1..Len(m) : ContainsPDF(m[j]) }
    IN IF hits = {} THEN 0 ELSE CHOOSE j \in hits : \A h \in hits : j <= h

\* C15 (PDF entry selection): the entry chosen is the first menu item, in
\* document order, whose text contains "PDF" in exactly that case; when there
\* is none the pipeline returns "skipped" without a click on an entry and
\* without a wait for a popup.
C15_FirstPDFEntryChosen ==
    /\ [][ipc = "find" /\ ipc' # "find" =>
            /\ exportButton' = FirstPDFEntry(menu)
            /\ (FirstPDFEntry(menu) # 0 => ipc' = "pdfClick" /\ returned' = returned)
            /\ (FirstPDFEntry(menu) = 0 =>
                  /\ ipc' = "idle"
                  /\ result' = "skipped"
                  /\ diag' = "nopdf"
                  /\ pc' = "loop"
                  /\ UNCHANGED <<popups, popup, listening, closeAttempt>>)]_vars
    /\ [](ipc \in {"pdfClick"} => exportButton # 0)
    /\ [](diag = "nopdf" => (popup = 0 /\ ~listening /\ closeAttempt = "none"))

\* the second entry is chosen: the first one spells pdf in lower case
C15_Witness ==
    /\ ipc = "pdfClick"
    /\ exportButton = 2

\* C16 as stated: a print that the popup triggers is never reported as not
\* triggered, because the flag and the wrapper are in place before the wait.
C16_PrintNeverMissed ==
    ~(popupPrinted # "no" /\ timedOut)

C18_NoPopupLeak ==
    ipc = "itemClick" => popups = {}

\* C19 (popup pairing): the listener for the new page is registered when the
\* click on the PDF entry is dispatched, so the page that the click creates is
\* never missed; one click is in flight at a time, and the popup that the
\* pipeline handles and closes is the one that the click of this item created.
C19_PopupPairing ==
    /\ [][ipc = "pdfClick" /\ ipc' = "awaitPopup" => listening' /\ popups' = popups]_vars
    /\ [][popups' \ popups # {} =>
            /\ ipc = "awaitPopup"
            /\ listening
            /\ popups' = popups \cup {i + 1}
            /\ popup' = i + 1
            /\ ipc' = "load"]_vars
    /\ [](listening => (ipc = "awaitPopup" \/ pc = "catch" \/ pc = "exited"))
    /\ [](ipc \in {"load", "inject", "waitPrint", "close"} =>
            /\ popup = i + 1
            /\ popup \in popups)
    /\ [][closeAttempt' = "closed" /\ closeAttempt # "closed" =>
            popups' = popups \ {i + 1}]_vars

\* the popup of the second item is closed while the popup of the first item,
\* left open by a failed load, is still there
C19_Witness ==
    /\ closeAttempt = "closed"
    /\ popup = 2
    /\ popups = {1}

====
